---------------------------- MODULE Spec2Model ----------------------------
(***************************************************************************)
(* Router discovery and smart login of the Resito backend.                 *)
(*                                                                         *)
(*   - SmartRouterAI (services/smart-router-ai.ts): testCredentials,       *)
(*     analyzeAndSuggestCredentials, smartLogin.                           *)
(*   - NetworkScanService, in its sequential form                          *)
(*     (services/network-scan.ts) and its parallel form (the variant built *)
(*     on the http/https modules): testIP, discoverRouter, smartDiscovery. *)
(*   - RouterModel (models/router.ts) and the router routes                *)
(*     (routes/router.ts) with the services they call.                     *)
(*   - RouterAIService over the services that drive a browser session.     *)
(*                                                                         *)
(* Text is a sequence of one-character strings, so that toLowerCase and    *)
(* includes are computed and not assumed.                                  *)
(***************************************************************************)
EXTENDS Integers, Sequences, FiniteSets, TLC

(***************************************************************************)
(* Bounds of the model.                                                    *)
(***************************************************************************)
\* longest credentials list the suggestion collaborator returns
MaxGuesses == 3
\* number of smartLogin runs that may be interleaved
NumRuns == 2
\* number of leading entries of a curated list that a scan visits
MaxCandidates == 3
\* number of leading entries of EXTENDED_IPS that a scan visits
MaxExtended == 2

(***************************************************************************)
(* Strings: String.prototype.toLowerCase and String.prototype.includes.    *)
(***************************************************************************)
UPPER ==
  <<"A","B","C","D","E","F","G","H","I","J","K","L","M",
    "N","O","P","Q","R","S","T","U","V","W","X","Y","Z">>

LOWER ==
  <<"a","b","c","d","e","f","g","h","i","j","k","l","m",
    "n","o","p","q","r","s","t","u","v","w","x","y","z">>

LowerChar(c) ==
  IF \E i \in 1..26 : UPPER[i] = c
    THEN LOWER[CHOOSE i \in 1..26 : UPPER[i] = c]
    ELSE c

toLowerCase(s) == [i \in 1..Len(s) |-> LowerChar(s[i])]

includes(s, t) ==
  \E i \in 0..(Len(s) - Len(t)) : SubSeq(s, i + 1, i + Len(t)) = t

(***************************************************************************)
(* What one HTTP request can come back with.                               *)
(*   kind "response"   : status line, headers and body were received       *)
(*   kind "bodyError"  : status line and headers were received, reading    *)
(*                       the body (response.text()) rejected               *)
(*   kind "fetchError" : fetch() itself rejected (abort by the timeout,    *)
(*                       refused, reset, unreachable, certificate)         *)
(***************************************************************************)
Response(status, body) ==
  [kind |-> "response", status |-> status, body |-> body, err |-> "none"]

BodyError(status, err) ==
  [kind |-> "bodyError", status |-> status, body |-> <<>>, err |-> err]

FetchError(err) ==
  [kind |-> "fetchError", status |-> 0, body |-> <<>>, err |-> err]

\* sample response bodies
BodyEmpty == <<>>
BodyWelcome == <<"W","e","l","c","o","m","e">>
BodyAdminPanel == <<"A","d","m","i","n"," ","P","a","n","e","l">>
BodySETTINGS == <<"S","E","T","T","I","N","G","S">>
BodyRouterConfiguration ==
  <<"R","o","u","t","e","r"," ","C","o","n","f","i","g","u","r","a","t","i","o","n">>
BodyWireLess == <<"W","i","r","e","L","e","s","s">>
BodyPleaseLogin == <<"P","l","e","a","s","e"," ","L","o","g","i","n">>
BodyAdmIn == <<"a","d","m"," ","i","n">>
BodyUnavailable ==
  <<"S","e","r","v","i","c","e"," ","U","n","a","v","a","i","l","a","b","l","e">>

Bodies ==
  { BodyEmpty, BodyWelcome, BodyAdminPanel, BodySETTINGS,
    BodyRouterConfiguration, BodyWireLess, BodyPleaseLogin, BodyAdmIn,
    BodyUnavailable }

Statuses == { 200, 201, 302, 401, 403, 404, 500, 503 }

TransportErrors == { "AbortError", "ECONNREFUSED", "ECONNRESET", "EHOSTUNREACH" }

(***************************************************************************)
(* SmartRouterAI.testCredentials                                           *)
(***************************************************************************)
\* the admin panel indicators of testCredentials
AdminIndicators ==
  { <<"a","d","m","i","n">>,
    <<"s","e","t","t","i","n","g","s">>,
    <<"c","o","n","f","i","g","u","r","a","t","i","o","n">>,
    <<"w","i","r","e","l","e","s","s">> }

HasAdminIndicator(text) ==
  \E tok \in AdminIndicators : includes(toLowerCase(text), tok)

CredSuccess ==
  [success |-> TRUE, text |-> "Login successful - found admin interface",
   status |-> 200, err |-> "none"]

CredRejected(status) ==
  [success |-> FALSE, text |-> "HTTP status - credentials rejected",
   status |-> status, err |-> "none"]

\* the catch of testCredentials: the details carry error.message
CredConnectionFailed_NoDetail(err) ==
  [success |-> FALSE, text |-> "Connection failed", status |-> 0, err |-> "none"]

CredConnectionFailed(err) ==
  [success |-> FALSE, text |-> "Connection failed", status |-> 0, err |-> err]

\* the result of testCredentials when its request comes back with `out`
testCredentials_Any200(out) ==
  IF out.kind = "fetchError"
    THEN CredConnectionFailed(out.err)
  ELSE IF out.status = 200
    THEN IF out.kind = "bodyError"
           THEN CredConnectionFailed(out.err)
           ELSE CredSuccess
  ELSE CredRejected(out.status)

testCredentials(out) ==
  IF out.kind = "fetchError"
    THEN CredConnectionFailed(out.err)
  ELSE IF out.status = 200
    THEN IF out.kind = "bodyError"
           THEN CredConnectionFailed(out.err)
         ELSE IF HasAdminIndicator(out.body)
           THEN CredSuccess
         ELSE CredRejected(out.status)
  ELSE CredRejected(out.status)

\* every way the request of one credential probe can come back
CredOutcomes ==
  { Response(s, b) : s \in Statuses, b \in Bodies }
    \cup { BodyError(200, e) : e \in { "ECONNRESET", "ERR_STREAM_PREMATURE_CLOSE" } }
    \cup { FetchError(e) : e \in TransportErrors }


(***************************************************************************)
(* The suggestion collaborator (Gemini) and what its answer parses to.     *)
(***************************************************************************)
Guess(u, p, why) == [username |-> u, password |-> p, reason |-> why]

\* the fixed fallback of analyzeAndSuggestCredentials
FallbackCredentials ==
  << Guess("admin", "admin", "Most common default"),
     Guess("admin", "password", "Common alternative"),
     Guess("admin", "", "Blank password") >>

\* guesses the collaborator may put in its answer
GuessPool ==
  { Guess("admin", "admin", "Default for most Linksys routers"),
    Guess("admin", "", "Common blank password for this brand"),
    Guess("root", "1234", "ISP firmware default") }

RECURSIVE SeqsUpTo(_, _)
SeqsUpTo(S, n) ==
  IF n = 0 THEN { <<>> }
  ELSE LET shorter == SeqsUpTo(S, n - 1)
       IN  shorter \cup { Append(q, x) : q \in shorter, x \in S }

GuessLists == SeqsUpTo(GuessPool, MaxGuesses)

(* The text of the collaborator's answer, by what the regular expression   *)
(* /\{[\s\S]*\}/ and JSON.parse make of it:                                *)
(*   match    : the text holds a "{" followed later by a "}"               *)
(*   valid    : JSON.parse accepts the matched span                        *)
(*   hasCreds : the parsed object has a "credentials" member               *)
AiText(match, valid, hasCreds, brand, credentials) ==
  [match |-> match, valid |-> valid, hasCreds |-> hasCreds,
   brand |-> brand, credentials |-> credentials]

TextNoJson == AiText(FALSE, FALSE, FALSE, "none", <<>>)
TextInvalidJson == AiText(TRUE, FALSE, FALSE, "none", <<>>)
TextNoCredentials == AiText(TRUE, TRUE, FALSE, "Netgear", <<>>)
TextWithCredentials(creds) == AiText(TRUE, TRUE, TRUE, "Linksys", creds)

\* how one call of the collaborator ends
GeminiThrows(err) ==
  [called |-> TRUE, threw |-> TRUE, err |-> err, text |-> TextNoJson]
GeminiAnswers(text) ==
  [called |-> TRUE, threw |-> FALSE, err |-> "none", text |-> text]

GeminiErrors ==
  { "GOOGLE_API_KEY environment variable not found",
    "Gemini API error",
    "request to generativelanguage.googleapis.com failed",
    "Cannot read properties of undefined (reading '0')" }

MalformedTexts == { TextNoJson, TextInvalidJson, TextNoCredentials }

GeminiOutcomes ==
  { GeminiThrows(e) : e \in GeminiErrors }
    \cup { GeminiAnswers(t) : t \in MalformedTexts }
    \cup { GeminiAnswers(TextWithCredentials(l)) : l \in GuessLists }

(***************************************************************************)
(* SmartRouterResult                                                       *)
(***************************************************************************)
NoCredentials == <<>>

SmartRouterResult(success, message, detail, hasData, ip, brand, working, suggested) ==
  [success |-> success, message |-> message, detail |-> detail,
   hasData |-> hasData, ipAddress |-> ip, brand |-> brand,
   workingCredentials |-> working, suggestedCredentials |-> suggested]

Failure(message, detail) ==
  SmartRouterResult(FALSE, message, detail, FALSE, "none", "none", NoCredentials, <<>>)

NoResult == [success |-> FALSE, message |-> "pending", detail |-> "none",
             hasData |-> FALSE, ipAddress |-> "none", brand |-> "none",
             workingCredentials |-> NoCredentials, suggestedCredentials |-> <<>>]

(***************************************************************************)
(* SmartRouterAI.analyzeAndSuggestCredentials                              *)
(***************************************************************************)
\* the inner try/catch: the parsed object, or the fallback object
ParseAnalysis(text) ==
  IF text.match /\ text.valid
    THEN [brand |-> text.brand, hasCreds |-> text.hasCreds,
          credentials |-> text.credentials]
    ELSE [brand |-> "Unknown", hasCreds |-> TRUE,
          credentials |-> FallbackCredentials]

\* the part of analyzeAndSuggestCredentials after the page was fetched
AnalysisAfterFetch(ip, g) ==
  IF g.threw
    THEN Failure("AI analysis failed", g.err)
  ELSE LET a == ParseAnalysis(g.text) IN
    IF ~a.hasCreds
      \* analysis.credentials.length of an undefined member throws
      THEN Failure("AI analysis failed",
                   "Cannot read properties of undefined (reading 'length')")
      ELSE SmartRouterResult(TRUE, "AI identified router", "none", TRUE, ip,
                             a.brand, NoCredentials, a.credentials)

\* the landing page request fails when fetch() or response.text() rejects
LandingFailed_Never(out) == FALSE

LandingFailed(out) == out.kind # "response"

AnalysisLandingFailed(out) == Failure("AI analysis failed", out.err)

(***************************************************************************)
(* State.                                                                  *)
(***************************************************************************)
VARIABLES
  \* --- one call of testCredentials -------------------------------------
  tcOut,      \* how the request of the call comes back
  tcResult,   \* the value the call returned, TcPending before it returns
  \* --- smartLogin, one entry per run -----------------------------------
  pc,         \* where the run is: idle, landing, gemini, loop, done
  landing,    \* how the landing page request came back
  gemini,     \* how the call of the suggestion collaborator ended
  analysis,   \* the value analyzeAndSuggestCredentials returned
  idx,        \* position in suggestedCredentials of the next guess to try
  probes,     \* the credential probes issued so far, in order
  result,     \* the value smartLogin returned
  inFlight,   \* the credential probes issued and not yet returned
  timers,     \* the requests to the device whose abort timer is armed
  \* --- discoverRouter --------------------------------------------------
  scanImpl,   \* which NetworkScanService runs: "sequential" or "parallel"
  scanOpts,   \* the NetworkScanOptions of the call
  scanPc,     \* idle, common, extended, parallel, done
  scanIdx,    \* sequential: position of the next address in its list
  scanProbed, \* sequential: what testIP returned per address, in order
  scanLog,    \* sequential: the requests of the latest testIP
  parOut,     \* parallel: per candidate and protocol, how the probe ended
  parFirst,   \* parallel: the first candidate whose testIP resolved true
  scanResult, \* the value discoverRouter returned
  \* --- one call of testIP / testConnection -----------------------------
  tipImpl,    \* which NetworkScanService runs: "sequential" or "parallel"
  tipRetries, \* options.retries of the call
  tipNet,     \* per protocol and attempt, how that request would come back
  tipResult,  \* what the call returned and the requests it issued
  \* --- the routers table and the calls of RouterModel.upsert -----------
  table,      \* the rows of the routers table, in the order of insertion
  upserts,    \* per call of upsert: where it is, its data, what it read
  upDone,     \* the calls of upsert that returned, in that order
  \* --- the router routes (routes/router.ts) ----------------------------
  request,    \* the request handled last: route, user, address, locals
  reply,      \* the response sent to it: status and the success of its body
  tableBefore,\* the rows of the routers table when that request arrived
  answered,   \* the smartLogin runs whose smart-connect request was answered
  \* --- smartDiscovery --------------------------------------------------
  sdPc,       \* none, first, second, done: which discoverRouter call runs
  sdFirst,    \* what the first discoverRouter call probed, in order
  sdResult,   \* the value smartDiscovery returned
  \* --- the callers of smartLogin ---------------------------------------
  cancelled,  \* per run: its caller gave the operation up
  \* --- RouterAIService (the services that drive a browser) -------------
  ai          \* per call: where it is, its action, its browser sessions

credVars == << tcOut, tcResult >>
loginVars ==
  << pc, landing, gemini, analysis, idx, probes, result, inFlight, timers >>
scanVars ==
  << scanImpl, scanOpts, scanPc, scanIdx, scanProbed, scanLog, parOut,
     parFirst, scanResult >>
probeVars == << tipImpl, tipRetries, tipNet, tipResult >>
dbVars == << table, upserts, upDone >>
routeVars == << request, reply, tableBefore, answered >>
sdVars == << sdPc, sdFirst, sdResult >>
appVars == << dbVars, routeVars, sdVars, cancelled, ai >>
serviceVars == << credVars, probeVars, loginVars, scanVars, sdVars, cancelled, ai >>
vars == << credVars, probeVars, loginVars, scanVars, appVars >>

Runs == 1..NumRuns

(***************************************************************************)
(* One call of testCredentials on every outcome of its request.            *)
(***************************************************************************)
TcPending ==
  [success |-> FALSE, text |-> "pending", status |-> 0, err |-> "none"]

TcNotUsed == FetchError("not used")

CredIdle == tcOut = TcNotUsed /\ tcResult = TcPending

RunTestCredentials ==
  /\ tcResult = TcPending
  /\ tcOut # TcNotUsed
  /\ tcResult' = testCredentials(tcOut)
  /\ UNCHANGED << appVars, tcOut, probeVars, loginVars, scanVars >>

(***************************************************************************)
(* SmartRouterAI.smartLogin                                                *)
(***************************************************************************)
NotRequested == FetchError("not requested")
NotCalled ==
  [called |-> FALSE, threw |-> FALSE, err |-> "none", text |-> TextNoJson]

\* the address a run is called with: every run has its own
RunAddr(r) == <<"192.168.1.1", "192.168.0.1", "10.0.0.1", "192.168.2.1">>[r]

LoginIdle ==
  /\ pc = [r \in Runs |-> "idle"]
  /\ landing = [r \in Runs |-> NotRequested]
  /\ gemini = [r \in Runs |-> NotCalled]
  /\ analysis = [r \in Runs |-> NoResult]
  /\ idx = [r \in Runs |-> 0]
  /\ probes = [r \in Runs |-> <<>>]
  /\ result = [r \in Runs |-> NoResult]
  /\ inFlight = [r \in Runs |-> { }]
  /\ timers = [r \in Runs |-> { }]

\* the analysis the loop of run r works on (a local of the call)
RunAnalysis_Shared(r) == IF analysis[1].success THEN analysis[1] ELSE analysis[r]

RunAnalysis(r) == analysis[r]

\* smartLogin hands the analysis back when it failed or has no suggestions
ReturnsAnalysis(a) == ~a.success \/ ~a.hasData

\* the loop returns as soon as a probe reports success
LoopReturns_Never(testResult) == FALSE

LoopReturns(testResult) == testResult.success

\* the guess at position i was the last one of the list
LoopExhausted_OffByOne(i, list) == i >= Len(list) - 1

LoopExhausted(i, list) == i >= Len(list)

SuccessResult_WorkingOnly(ip, a, cred) ==
  SmartRouterResult(TRUE, "Successfully logged in to router", "none", TRUE, ip,
                    a.brand,
                    << [username |-> cred.username, password |-> cred.password] >>,
                    << cred >>)

SuccessResult(ip, a, cred) ==
  SmartRouterResult(TRUE, "Successfully logged in to router", "none", TRUE, ip,
                    a.brand,
                    << [username |-> cred.username, password |-> cred.password] >>,
                    a.suggestedCredentials)

ExhaustedResult(ip, a) ==
  SmartRouterResult(FALSE, "Could not find working credentials", "none", TRUE,
                    ip, a.brand, NoCredentials, a.suggestedCredentials)

Probe(i, cred, out, testResult) ==
  [index |-> i, cred |-> cred, out |-> out, testResult |-> testResult]

\* the abort timers of a run: one per request to the device
LandingTimer == [request |-> "landing", index |-> 0]

ProbeTimer(i) == [request |-> "probe", index |-> i]

\* smartLogin(ipAddress) is called: the landing page request goes out with
\* its abort timer armed
StartSmartLogin(r) ==
  /\ pc[r] = "idle"
  /\ pc' = [pc EXCEPT ![r] = "landing"]
  /\ timers' = [timers EXCEPT ![r] = @ \cup { LandingTimer }]
  /\ UNCHANGED << appVars, credVars, probeVars, scanVars, landing, gemini, analysis, idx,
                  probes, result, inFlight >>

\* what analyzeAndSuggestCredentials does with the landing page request's
\* outcome: on failure its catch builds the result smartLogin returns
LandingDone(r, out) ==
  /\ landing' = [landing EXCEPT ![r] = out]
  /\ timers' = [timers EXCEPT ![r] = @ \ { LandingTimer }]
  /\ IF LandingFailed(out)
       THEN /\ analysis' = [analysis EXCEPT ![r] = AnalysisLandingFailed(out)]
            /\ result' = [result EXCEPT ![r] = AnalysisLandingFailed(out)]
            /\ pc' = [pc EXCEPT ![r] = "done"]
       ELSE /\ pc' = [pc EXCEPT ![r] = "gemini"]
            /\ UNCHANGED << analysis, result >>
  /\ UNCHANGED << appVars, credVars, probeVars, scanVars, gemini, idx, probes, inFlight >>

\* the landing page request comes back: fetch and response.text() in one step
FetchLanding(r, out) ==
  /\ pc[r] = "landing"
  /\ LandingDone(r, out)

\* the headers of the landing page arrived
Headers(status) == [kind |-> "headers", status |-> status, body |-> <<>>, err |-> "none"]

\* fetch() of the landing page resolves: clearTimeout, then response.text()
\* is awaited
LandingHeaders(r, status) ==
  /\ pc[r] = "landing"
  /\ pc' = [pc EXCEPT ![r] = "landingText"]
  /\ landing' = [landing EXCEPT ![r] = Headers(status)]
  /\ timers' = [timers EXCEPT ![r] = @ \ { LandingTimer }]
  /\ UNCHANGED << appVars, credVars, probeVars, scanVars, gemini, analysis, idx, probes,
                  result, inFlight >>

\* response.text() of the landing page settles
LandingText(r, out) ==
  /\ pc[r] = "landingText"
  /\ out.kind \in { "response", "bodyError" }
  /\ out.status = landing[r].status
  /\ LandingDone(r, out)

\* the call of the collaborator ends; the analysis is built and, when it
\* carries suggestions, the loop is entered
CallGemini(r, g) ==
  /\ pc[r] = "gemini"
  /\ gemini' = [gemini EXCEPT ![r] = g]
  /\ LET a == AnalysisAfterFetch(RunAddr(r), g) IN
       /\ analysis' = [analysis EXCEPT ![r] = a]
       /\ IF ReturnsAnalysis(a)
            THEN /\ result' = [result EXCEPT ![r] = a]
                 /\ pc' = [pc EXCEPT ![r] = "done"]
                 /\ UNCHANGED idx
          ELSE IF Len(a.suggestedCredentials) = 0
            THEN /\ result' = [result EXCEPT ![r] = ExhaustedResult(RunAddr(r), a)]
                 /\ pc' = [pc EXCEPT ![r] = "done"]
                 /\ UNCHANGED idx
          ELSE /\ pc' = [pc EXCEPT ![r] = "loop"]
               /\ idx' = [idx EXCEPT ![r] = 1]
               /\ UNCHANGED result
  /\ UNCHANGED << appVars, credVars, probeVars, scanVars, landing, probes, inFlight, timers >>

\* one turn of the loop: the guess at idx is probed and the probe returns.
\* testCredentials catches every error of its request, so with a list of
\* guess objects nothing in the loop throws and the catch of smartLogin is
\* not entered.
LoopTurn(r, out) ==
  /\ LET a == RunAnalysis(r)
         cred == a.suggestedCredentials[idx[r]]
         testResult == testCredentials(out)
     IN
       /\ probes' = [probes EXCEPT ![r] = Append(@, Probe(idx[r], cred, out, testResult))]
       /\ IF LoopReturns(testResult)
            THEN /\ result' = [result EXCEPT ![r] = SuccessResult(RunAddr(r), a, cred)]
                 /\ pc' = [pc EXCEPT ![r] = "done"]
                 /\ UNCHANGED idx
          ELSE IF LoopExhausted(idx[r], a.suggestedCredentials)
            THEN /\ result' = [result EXCEPT ![r] = ExhaustedResult(RunAddr(r), a)]
                 /\ pc' = [pc EXCEPT ![r] = "done"]
                 /\ UNCHANGED idx
          ELSE /\ idx' = [idx EXCEPT ![r] = @ + 1]
               /\ UNCHANGED << pc, result >>
  /\ UNCHANGED << appVars, credVars, probeVars, scanVars, landing, gemini, analysis >>

TryCredential(r, out) ==
  /\ pc[r] = "loop"
  /\ inFlight[r] = { }
  /\ LoopTurn(r, out)
  /\ UNCHANGED << inFlight, timers >>

InFlightProbe(i, phase) == [index |-> i, phase |-> phase]

\* the loop awaits testCredentials: the next probe goes out only after the
\* one before has returned
CanIssue_Eager(r) == TRUE

CanIssue(r) == inFlight[r] = { }

\* testCredentials is called for the next guess: the request goes out with
\* its abort timer armed
IssueProbe(r) ==
  /\ pc[r] = "loop"
  /\ CanIssue(r)
  /\ LET i == idx[r] + Cardinality(inFlight[r]) IN
       /\ i <= Len(RunAnalysis(r).suggestedCredentials)
       /\ inFlight' = [inFlight EXCEPT ![r] = @ \cup { InFlightProbe(i, "fetch") }]
       /\ timers' = [timers EXCEPT ![r] = @ \cup { ProbeTimer(i) }]
  /\ UNCHANGED << appVars, credVars, probeVars, scanVars, pc, landing, gemini, analysis,
                  idx, probes, result >>

\* fetch() of the probe resolves with status 200: clearTimeout, then
\* response.text() is awaited
ProbeHeaders(r) ==
  /\ pc[r] = "loop"
  /\ InFlightProbe(idx[r], "fetch") \in inFlight[r]
  /\ inFlight' = [inFlight EXCEPT ![r] =
                    (@ \ { InFlightProbe(idx[r], "fetch") })
                      \cup { InFlightProbe(idx[r], "text") }]
  /\ timers' = [timers EXCEPT ![r] = @ \ { ProbeTimer(idx[r]) }]
  /\ UNCHANGED << appVars, credVars, probeVars, scanVars, pc, landing, gemini, analysis,
                  idx, probes, result >>

\* the probe of the guess at idx returns: from the fetch with an error or a
\* status other than 200, from response.text() with the body or an error
ProbeReturns(r, out) ==
  /\ pc[r] = "loop"
  /\ \/ /\ InFlightProbe(idx[r], "fetch") \in inFlight[r]
        /\ out.kind = "fetchError" \/ (out.kind = "response" /\ out.status # 200)
     \/ /\ InFlightProbe(idx[r], "text") \in inFlight[r]
        /\ out.kind \in { "response", "bodyError" } /\ out.status = 200
  /\ inFlight' = [inFlight EXCEPT ![r] = { p \in @ : p.index # idx[r] }]
  /\ timers' = [timers EXCEPT ![r] = @ \ { ProbeTimer(idx[r]) }]
  /\ LoopTurn(r, out)

\* outcomes of the landing page request
LandingOutcomes ==
  { Response(200, BodyPleaseLogin), Response(401, BodyEmpty),
    FetchError("AbortError"), FetchError("ECONNREFUSED"),
    FetchError("ECONNRESET"), BodyError(200, "ECONNRESET") }

\* outcomes of a credential probe inside a run
LoginCredOutcomes ==
  { Response(200, BodyAdminPanel), Response(200, BodyWelcome),
    Response(401, BodyEmpty), Response(500, BodySETTINGS),
    FetchError("AbortError"), FetchError("ECONNRESET") }

(***************************************************************************)
(* NetworkScanService, sequential form (services/network-scan.ts)          *)
(***************************************************************************)
COMMON_ROUTER_IPS ==
  << "192.168.1.1", "192.168.0.1", "10.0.0.1", "192.168.2.1",
     "192.168.1.254", "192.168.0.254", "192.168.10.1", "192.168.100.1",
     "172.16.1.1", "192.168.3.1", "192.168.11.1", "10.0.1.1", "10.1.1.1",
     "192.168.8.1", "192.168.4.1" >>

EXTENDED_IPS ==
  << "192.168.1.2", "192.168.1.10", "192.168.1.100",
     "192.168.0.2", "192.168.0.10", "192.168.0.100",
     "10.0.0.2", "10.0.0.10", "10.0.0.100",
     "172.16.0.1", "172.16.0.10",
     "192.168.5.1", "192.168.6.1", "192.168.7.1",
     "192.168.9.1", "192.168.20.1", "192.168.50.1" >>

\* the part of each list a scan of the model visits
Candidates == SubSeq(COMMON_ROUTER_IPS, 1, MaxCandidates)
ExtCandidates == SubSeq(EXTENDED_IPS, 1, MaxExtended)

Protocols == << "http", "https" >>

DiscoveredRouter(ip, accessible, protocols) ==
  [found |-> TRUE, ipAddress |-> ip, isAccessible |-> accessible,
   supportedProtocols |-> protocols]

\* discoverRouter returned null
NotFound ==
  [found |-> FALSE, ipAddress |-> "null", isAccessible |-> FALSE,
   supportedProtocols |-> <<>>]

\* any response below 500 indicates a web server
IndicatesServer_AnyStatus(status) == status < 600

IndicatesServer(status) == status < 500

\* errors after which testIP does not repeat the request
NoRetryErrors_None == { }

NoRetryErrors == { "ECONNREFUSED", "EHOSTUNREACH" }

Request(protocol, attempt, out) ==
  [protocol |-> protocol, attempt |-> attempt, out |-> out]

(* The attempts of testIP on one protocol, from `attempt` on.  net gives   *)
(* for every protocol and attempt how that request would come back; the    *)
(* log holds the requests that were issued.                                *)
RECURSIVE Attempts(_, _, _, _)
Attempts(net, protocol, attempt, retries) ==
  IF attempt > retries
    THEN [hit |-> FALSE, log |-> <<>>]
  ELSE LET out == net[protocol][attempt]
           this == << Request(protocol, attempt, out) >>
       IN
    IF out.kind = "response" /\ IndicatesServer(out.status)
      THEN [hit |-> TRUE, log |-> this]
    ELSE IF out.kind = "fetchError" /\ out.err \in NoRetryErrors
      THEN [hit |-> FALSE, log |-> this]
    ELSE LET rest == Attempts(net, protocol, attempt + 1, retries)
         IN  [hit |-> rest.hit, log |-> this \o rest.log]

\* testIP: http first, then https; the first response below 500 decides
testIP(ip, net, retries) ==
  LET viaHttp == Attempts(net, "http", 1, retries) IN
  IF viaHttp.hit
    THEN [router |-> DiscoveredRouter(ip, TRUE, << "http" >>), log |-> viaHttp.log]
  ELSE LET viaHttps == Attempts(net, "https", 1, retries) IN
    IF viaHttps.hit
      THEN [router |-> DiscoveredRouter(ip, TRUE, << "https" >>),
            log |-> viaHttp.log \o viaHttps.log]
      ELSE [router |-> DiscoveredRouter(ip, FALSE, <<>>),
            log |-> viaHttp.log \o viaHttps.log]

\* largest value of options.retries a call passes
MaxRetries == 2

\* how a HEAD request of testIP can come back
HeadOutcomes ==
  { Response(200, <<>>), Response(503, <<>>),
    FetchError("ECONNREFUSED"), FetchError("AbortError") }

\* for every request testIP may issue with `retries`, how it comes back
Nets(retries) == [ { "http", "https" } -> [ 1..retries -> HeadOutcomes ] ]

\* the for-of loop over a list has visited its last entry
ListExhausted_Early(i, list) == i >= Len(list) - 1

ListExhausted(i, list) == i >= Len(list)

\* the extended sweep runs only when the caller asked for it
RunsExtended_Always(options) == TRUE

RunsExtended(options) == options.includeExtended

Probed(ip, scope, accessible) ==
  [ipAddress |-> ip, scope |-> scope, isAccessible |-> accessible]

\* one turn of the loop over COMMON_ROUTER_IPS
ScanCommon ==
  /\ scanImpl = "sequential"
  /\ scanPc = "common"
  /\ \E net \in Nets(scanOpts.retries) :
     LET ip == Candidates[scanIdx]
         t == testIP(ip, net, scanOpts.retries)
     IN
       /\ scanProbed' = Append(scanProbed, Probed(ip, "common", t.router.isAccessible))
       /\ scanLog' = t.log
       /\ IF t.router.isAccessible
            THEN /\ scanResult' = t.router
                 /\ scanPc' = "done"
                 /\ UNCHANGED scanIdx
          ELSE IF ~ListExhausted(scanIdx, Candidates)
            THEN /\ scanIdx' = scanIdx + 1
                 /\ UNCHANGED << scanPc, scanResult >>
          ELSE IF RunsExtended(scanOpts) /\ Len(ExtCandidates) > 0
            THEN /\ scanPc' = "extended"
                 /\ scanIdx' = 1
                 /\ UNCHANGED scanResult
          ELSE /\ scanResult' = NotFound
               /\ scanPc' = "done"
               /\ UNCHANGED scanIdx
  /\ UNCHANGED << appVars, credVars, probeVars, loginVars, scanImpl, scanOpts, parOut, parFirst >>

\* one turn of the loop over EXTENDED_IPS (always with retries: 1)
ScanExtended ==
  /\ scanImpl = "sequential"
  /\ scanPc = "extended"
  /\ \E net \in Nets(1) :
     LET ip == ExtCandidates[scanIdx]
         t == testIP(ip, net, 1)
     IN
       /\ scanProbed' = Append(scanProbed, Probed(ip, "extended", t.router.isAccessible))
       /\ scanLog' = t.log
       /\ IF t.router.isAccessible
            THEN /\ scanResult' = t.router
                 /\ scanPc' = "done"
                 /\ UNCHANGED scanIdx
          ELSE IF ~ListExhausted(scanIdx, ExtCandidates)
            THEN /\ scanIdx' = scanIdx + 1
                 /\ UNCHANGED << scanPc, scanResult >>
          ELSE /\ scanResult' = NotFound
               /\ scanPc' = "done"
               /\ UNCHANGED scanIdx
  /\ UNCHANGED << appVars, credVars, probeVars, loginVars, scanImpl, scanOpts, parOut, parFirst >>

(***************************************************************************)
(* NetworkScanService, parallel form (built on the http and https modules) *)
(***************************************************************************)
Par_COMMON_ROUTER_IPS ==
  << "192.168.78.1",
     "192.168.1.1", "192.168.0.1", "192.168.2.1", "192.168.3.1", "10.0.0.1",
     "192.168.4.1", "192.168.8.1", "192.168.10.1", "192.168.20.1",
     "192.168.50.1", "192.168.68.1", "192.168.86.1", "192.168.100.1",
     "192.168.254.254",
     "192.168.1.254", "192.168.0.254", "192.168.2.254",
     "10.1.1.1", "172.16.1.1", "172.16.0.1",
     "192.168.43.1", "172.20.10.1", "192.168.15.1" >>

Par_Candidates == SubSeq(Par_COMMON_ROUTER_IPS, 1, MaxCandidates)

RouterTokens ==
  { <<"l","o","g","i","n">>,
    <<"r","o","u","t","e","r">>,
    <<"a","d","m","i","n">>,
    <<"w","i","r","e","l","e","s","s">>,
    <<"p","a","s","s","w","o","r","d">>,
    <<"n","e","t","g","e","a","r">>,
    <<"l","i","n","k","s","y","s">>,
    <<"t","p","-","l","i","n","k">>,
    <<"a","s","u","s">>,
    <<"d","l","i","n","k">>,
    <<"b","e","l","k","i","n">>,
    <<"c","o","n","f","i","g">>,
    <<"s","e","t","u","p">> }

\* the sample bodies in which isRouterContent finds one of its tokens
RouterContentBodies ==
  { content \in Bodies :
      LET lowerContent == toLowerCase(content)
      IN  \E tok \in RouterTokens : includes(lowerContent, tok) }

isRouterContent(content, statusCode) ==
  \/ statusCode = 401
  \/ content \in RouterContentBodies

\* the probe has not settled yet
Pending == [kind |-> "pending", status |-> 0, body |-> <<>>, err |-> "none"]

CertErrors == { "CERT_HAS_EXPIRED", "DEPTH_ZERO_SELF_SIGNED_CERT" }

\* what the promise of testHTTP resolves to
Par_testHTTP(out) ==
  IF out.kind = "response"
    THEN out.status < 500 \/ isRouterContent(out.body, out.status)
    ELSE FALSE

\* what the promise of testHTTPS resolves to: the first resolve() counts
Par_testHTTPS_AnyOtherError(out) ==
  IF out.kind = "response"
    THEN out.status < 500 \/ isRouterContent(out.body, out.status)
  ELSE IF out.err = "ECONNREFUSED" \/ out.err = "timeout"
    THEN FALSE
  ELSE TRUE

Par_testHTTPS(out) ==
  IF out.kind = "response"
    THEN out.status < 500 \/ isRouterContent(out.body, out.status)
  ELSE IF out.err = "ECONNREFUSED" \/ out.err = "timeout"
    THEN FALSE
  ELSE out.err \in CertErrors

\* testIP: Promise.allSettled over both protocols, true if either is true
Par_testIP(outs) == Par_testHTTP(outs["http"]) \/ Par_testHTTPS(outs["https"])

TestResult(ip, isWorking) == [ip |-> ip, isWorking |-> isWorking]

\* the loop over the settled results, which are in the order of the list
Par_FirstWorking_FirstSettled(results) ==
  IF \E j \in 1..Len(results) : results[j].isWorking
    THEN DiscoveredRouter(results[parFirst'].ip, TRUE, <<>>)
    ELSE NotFound

Par_FirstWorking(results) ==
  IF \E j \in 1..Len(results) : results[j].isWorking
    THEN LET first == CHOOSE j \in 1..Len(results) :
                        /\ results[j].isWorking
                        /\ \A k \in 1..(j - 1) : ~results[k].isWorking
         IN  DiscoveredRouter(results[first].ip, TRUE, <<>>)
    ELSE NotFound

\* the requests launched and not yet settled
Par_InFlight ==
  Cardinality({ jp \in (1..Len(Par_Candidates)) \X { "http", "https" } :
                  parOut[jp[1]][jp[2]] = Pending })

ParSettled(out, j) == \A pr \in { "http", "https" } : out[j][pr] # Pending

\* one probe settles; when it was the last one, discoverRouter picks
Par_Settle(i, protocol, out) ==
  /\ scanImpl = "parallel"
  /\ scanPc = "parallel"
  /\ parOut[i][protocol] = Pending
  /\ parOut' = [parOut EXCEPT ![i][protocol] = out]
  /\ parFirst' = IF parFirst = 0 /\ ParSettled(parOut', i) /\ Par_testIP(parOut'[i])
                   THEN i
                   ELSE parFirst
  /\ IF \A j \in 1..Len(Par_Candidates) : ParSettled(parOut', j)
       THEN /\ scanResult' =
                 Par_FirstWorking([j \in 1..Len(Par_Candidates) |->
                                     TestResult(Par_Candidates[j], Par_testIP(parOut'[j]))])
            /\ scanPc' = "done"
       ELSE UNCHANGED << scanResult, scanPc >>
  /\ UNCHANGED << appVars, credVars, probeVars, loginVars, scanImpl, scanOpts, scanIdx, scanProbed, scanLog >>

\* how a probe of the parallel form can end, per protocol
ParOutcomes ==
  [ http |-> { Response(200, BodyPleaseLogin), Response(503, BodyUnavailable),
               FetchError("ECONNREFUSED") },
    https |-> { Response(500, BodyAdminPanel), FetchError("ECONNREFUSED"),
                FetchError("DEPTH_ZERO_SELF_SIGNED_CERT") } ]

(***************************************************************************)
(* One call of testIP / testConnection, of either form.                    *)
(***************************************************************************)
\* the address the call is made for
TipAddr == "192.168.1.1"

\* how a request can fail before any response arrives
TipErrors ==
  { FetchError("ECONNREFUSED"), FetchError("EHOSTUNREACH"),
    FetchError("ECONNRESET"), FetchError("AbortError"), FetchError("timeout"),
    FetchError("DEPTH_ZERO_SELF_SIGNED_CERT"), FetchError("CERT_HAS_EXPIRED") }

\* first request per protocol of the sequential form: a HEAD has no body
TipHeadOutcomes ==
  { Response(200, <<>>), Response(404, <<>>), Response(500, <<>>),
    Response(503, <<>>) } \cup TipErrors

\* request per protocol of the parallel form: a GET, the body is read
TipGetOutcomes ==
  { Response(200, BodyEmpty), Response(404, BodyEmpty),
    Response(500, BodyAdminPanel), Response(503, BodyUnavailable) }
    \cup TipErrors

TipPending == [returned |-> FALSE, isAccessible |-> FALSE, log |-> <<>>]

TipReturned(isAccessible, log) ==
  [returned |-> TRUE, isAccessible |-> isAccessible, log |-> log]

\* testConnection hands on what testIP found
testConnection(t) == t.isAccessible

\* testIP of services/network-scan.ts
SeqTestIP ==
  /\ tipImpl = "sequential"
  /\ tipResult = TipPending
  /\ LET t == testIP(TipAddr, tipNet, tipRetries)
     IN  tipResult' = TipReturned(t.router.isAccessible, t.log)
  /\ UNCHANGED << appVars, credVars, loginVars, scanVars, tipImpl, tipRetries, tipNet >>

\* testIP of the parallel form: one request per protocol, both launched
ParTestIP ==
  /\ tipImpl = "parallel"
  /\ tipResult = TipPending
  /\ LET outs == [pr \in { "http", "https" } |-> tipNet[pr][1]]
     IN  tipResult' =
           TipReturned(Par_testIP(outs),
                       << Request("http", 1, outs["http"]),
                          Request("https", 1, outs["https"]) >>)
  /\ UNCHANGED << appVars, credVars, loginVars, scanVars, tipImpl, tipRetries, tipNet >>

ProbeIdle ==
  /\ tipImpl = "none"
  /\ tipRetries = 1
  /\ tipNet = <<>>
  /\ tipResult = TipPending

(***************************************************************************)
(* discoverRouter: state before and at the call                            *)
(***************************************************************************)
NotReturned ==
  [found |-> FALSE, ipAddress |-> "pending", isAccessible |-> FALSE,
   supportedProtocols |-> <<>>]

DefaultOptions == [retries |-> 1, includeExtended |-> FALSE]

AllPending == [j \in 1..MaxCandidates |-> [pr \in { "http", "https" } |-> Pending]]

ScanIdle ==
  /\ scanImpl = "none"
  /\ scanOpts = DefaultOptions
  /\ scanPc = "idle"
  /\ scanIdx = 0
  /\ scanProbed = <<>>
  /\ scanLog = <<>>
  /\ parOut = AllPending
  /\ parFirst = 0
  /\ scanResult = NotReturned

(***************************************************************************)
(* RouterModel and the routers table (models/router.ts).                   *)
(***************************************************************************)
Users == { "u1", "u2" }

Row(userId, ipAddress, username, password) ==
  [userId |-> userId, ipAddress |-> ipAddress, username |-> username,
   password |-> password]

\* findByUserId found no row: null
NoRow == Row("null", "null", "null", "null")

\* the positions of the rows of a user
RowsOf(t, userId) == { i \in 1..Len(t) : t[i].userId = userId }

\* select ... where user_id = userId, first row or null
findByUserId(t, userId) ==
  IF RowsOf(t, userId) = { }
    THEN NoRow
    ELSE t[CHOOSE i \in RowsOf(t, userId) : \A j \in RowsOf(t, userId) : i <= j]

\* insert: user_id is declared unique, a second row of a user is refused
create(t, data) ==
  IF RowsOf(t, data.userId) # { }
    THEN [ok |-> FALSE, table |-> t]
    ELSE [ok |-> TRUE, table |-> Append(t, data)]

\* update ... set data where user_id = userId
update_AddressOnly(t, userId, data) ==
  [ok |-> TRUE,
   table |-> [i \in 1..Len(t) |->
                IF t[i].userId = userId
                  THEN [t[i] EXCEPT !.ipAddress = data.ipAddress]
                  ELSE t[i]]]

update(t, userId, data) ==
  [ok |-> TRUE,
   table |-> [i \in 1..Len(t) |-> IF t[i].userId = userId THEN data ELSE t[i]]]

\* upsert with nothing between its read and its write
upsert(t, data) ==
  IF findByUserId(t, data.userId) # NoRow
    THEN update(t, data.userId, data)
    ELSE create(t, data)

UpsertCall(pc_, data, existing, ok, after) ==
  [pc |-> pc_, data |-> data, existing |-> existing, ok |-> ok, after |-> after]

UpsertIdle == UpsertCall("idle", NoRow, FALSE, TRUE, <<>>)

\* upsert, first half: findByUserId
UpsertRead(c, data) ==
  /\ upserts[c].pc = "idle"
  /\ upserts' = [upserts EXCEPT ![c] =
                   UpsertCall("read", data,
                              findByUserId(table, data.userId) # NoRow, TRUE, <<>>)]
  /\ UNCHANGED << serviceVars, table, upDone,
                  routeVars >>

\* a call of upsert made while no other call is between its read and write
UpsertReadAlone(c, data) ==
  /\ \A d \in Runs : upserts[d].pc # "read"
  /\ UpsertRead(c, data)

\* upsert, second half: update when a row was found, create otherwise; a
\* refused insert makes the call throw
UpsertWrite(c) ==
  /\ upserts[c].pc = "read"
  /\ LET data == upserts[c].data
         w == IF upserts[c].existing
                THEN update(table, data.userId, data)
                ELSE create(table, data)
     IN
       /\ table' = w.table
       /\ upserts' = [upserts EXCEPT ![c] =
                        UpsertCall("done", data, upserts[c].existing, w.ok, w.table)]
       /\ upDone' = Append(upDone, c)
  /\ UNCHANGED << serviceVars, routeVars >>

\* what callers pass to upsert
UpsertData ==
  { Row(u, ip, cred[1], cred[2]) :
      u \in Users, ip \in { "192.168.1.1", "10.0.0.1" },
      cred \in { << "admin", "admin" >>, << "root", "1234" >> } }

\* the table before the calls: empty, or with the row of one user
InitialTables == { <<>>, << Row("u1", "192.168.0.1", "admin", "password") >> }

DbIdle ==
  /\ table = <<>>
  /\ upserts = [c \in Runs |-> UpsertIdle]
  /\ upDone = <<>>

(***************************************************************************)
(* The router routes (routes/router.ts) and the services they call         *)
(* (services/index.ts).                                                    *)
(***************************************************************************)
\* the response of a route: res.status(status).json({ success, ... })
Reply(route, status, success) ==
  [route |-> route, status |-> status, success |-> success]

\* the request of a reply and the locals of its handler: tested says
\* whether the handler called the connection test, isConnected what the
\* test returned
Handled(route, userId, ipAddress, tested, isConnected) ==
  [route |-> route, userId |-> userId, ipAddress |-> ipAddress,
   tested |-> tested, isConnected |-> isConnected]

NoRequest == Handled("none", "null", "null", FALSE, FALSE)
NoReply == Reply("none", 0, TRUE)

\* !ipAddress: the body of the request carries no address
MissingAddress(ip) == ip = ""

RouteAddr == "192.168.1.1"

\* what a request may carry as ipAddress
RouteAddrs == { "", RouteAddr }

\* username and password of a request; both default to 'admin'
RouteCredentials == { << "admin", "admin" >>, << "root", "1234" >> }

\* how the requests of the connection test of POST /connect come back
RouteNets ==
  [ { "http", "https" } ->
      [ 1..DefaultOptions.retries ->
          { Response(200, <<>>), Response(503, <<>>), FetchError("ECONNREFUSED") } ] ]

\* BaseRouterService.testBasicConnection: a HEAD request, any status below
\* 500 counts, every error is caught
testBasicConnection(out) == out.kind = "response" /\ out.status < 500

\* RouterLoginService.login: success when the device can be reached
login(out) == [success |-> testBasicConnection(out)]

\* RouterRebootService.reboot
reboot == [success |-> FALSE]

\* POST /connect goes on to save the router
ConnectSaves_Untested(ip, isConnected) == ~MissingAddress(ip)

ConnectSaves(ip, isConnected) == ~MissingAddress(ip) /\ isConnected

\* POST /connect
Connect(u, ip, cred, net, dbThrows) ==
  LET isConnected ==
        /\ ~MissingAddress(ip)
        /\ testIP(ip, net, DefaultOptions.retries).router.isAccessible
      w == upsert(table, Row(u, ip, cred[1], cred[2]))
  IN
    /\ tableBefore' = table
    /\ request' = Handled("connect", u, ip, ~MissingAddress(ip), isConnected)
    /\ IF ~ConnectSaves(ip, isConnected)
         THEN /\ reply' = Reply("connect", 400, FALSE)
              /\ table' = table
       ELSE IF dbThrows \/ ~w.ok
         THEN /\ reply' = Reply("connect", 500, FALSE)
              /\ table' = table
         ELSE /\ reply' = Reply("connect", 200, TRUE)
              /\ table' = w.table
    /\ UNCHANGED << serviceVars, upserts, upDone,
                    answered >>

\* POST /test
TestRoute(u, ip, out) ==
  /\ tableBefore' = table
  /\ request' = Handled("test", u, ip, ~MissingAddress(ip),
                        ~MissingAddress(ip) /\ testBasicConnection(out))
  /\ reply' = IF MissingAddress(ip)
                THEN Reply("test", 400, FALSE)
                ELSE Reply("test", 200, login(out).success)
  /\ UNCHANGED << serviceVars, dbVars, answered >>

\* POST /reboot
Reboot(u, dbThrows) ==
  /\ tableBefore' = table
  /\ request' = Handled("reboot", u, findByUserId(table, u).ipAddress, FALSE, FALSE)
  /\ reply' = IF dbThrows
                THEN Reply("reboot", 500, FALSE)
              ELSE IF findByUserId(table, u) = NoRow
                THEN Reply("reboot", 404, FALSE)
                ELSE Reply("reboot", 200, reboot.success)
  /\ UNCHANGED << serviceVars, dbVars, answered >>

\* POST /smart-connect without an address
SmartConnectNoAddress(u) ==
  /\ tableBefore' = table
  /\ request' = Handled("smart-connect", u, "", FALSE, FALSE)
  /\ reply' = Reply("smart-connect", 400, FALSE)
  /\ UNCHANGED << serviceVars, dbVars, answered >>

\* POST /smart-connect saves what smartLogin returned
SmartConnectSaves(res) == res.success /\ res.workingCredentials # NoCredentials

\* POST /smart-connect, from the return of smartLogin (run r) on; an error
\* of the database is caught and the answer is the same
SmartConnectReply(r, u, dbThrows) ==
  /\ pc[r] = "done"
  /\ r \notin answered
  /\ answered' = answered \cup { r }
  /\ tableBefore' = table
  /\ request' = Handled("smart-connect", u, RunAddr(r), TRUE, result[r].success)
  /\ reply' = Reply("smart-connect", 200, result[r].success)
  /\ IF SmartConnectSaves(result[r]) /\ ~dbThrows
       THEN LET working == result[r].workingCredentials[1]
                w == upsert(table, Row(u, RunAddr(r), working.username,
                                       working.password))
            IN  table' = w.table
       ELSE table' = table
  /\ UNCHANGED << serviceVars, upserts, upDone >>

RouteIdle ==
  /\ request = NoRequest
  /\ reply = NoReply
  /\ tableBefore = <<>>
  /\ answered = { }

(***************************************************************************)
(* NetworkScanService.smartDiscovery: discoverRouter over the curated      *)
(* list, and when that returned null discoverRouter once more with the     *)
(* extended sweep.                                                         *)
(***************************************************************************)
SdIdle ==
  /\ sdPc = "none"
  /\ sdFirst = <<>>
  /\ sdResult = NotReturned

\* the first call returned null: discoverRouter({ includeExtended: true })
SmartDiscoverySecondCall ==
  /\ sdPc = "first"
  /\ scanPc = "done"
  /\ ~scanResult.found
  /\ sdPc' = "second"
  /\ sdFirst' = scanProbed
  /\ scanOpts' = [retries |-> DefaultOptions.retries, includeExtended |-> TRUE]
  /\ scanPc' = "common"
  /\ scanIdx' = 1
  /\ scanProbed' = <<>>
  /\ scanLog' = <<>>
  /\ scanResult' = NotReturned
  /\ UNCHANGED << credVars, probeVars, loginVars, dbVars, routeVars, cancelled,
                  ai, scanImpl, parOut, parFirst, sdResult >>

\* smartDiscovery returns what the first call found, or else whatever the
\* second call returned
SmartDiscoveryReturns ==
  /\ sdPc \in { "first", "second" }
  /\ scanPc = "done"
  /\ sdPc = "first" => scanResult.found
  /\ sdPc' = "done"
  /\ sdResult' = scanResult
  /\ UNCHANGED << credVars, probeVars, loginVars, dbVars, routeVars, cancelled,
                  ai, scanVars, sdFirst >>

(***************************************************************************)
(* The caller of smartLogin gives the operation up.  smartLogin takes the  *)
(* address and nothing else, and its requests are bound to the abort       *)
(* controllers of their own timeouts: nothing of the run hears of it.      *)
(***************************************************************************)
CancelIdle == cancelled = [r \in Runs |-> FALSE]

CallerCancels(r) ==
  /\ pc[r] \notin { "idle", "done" }
  /\ ~cancelled[r]
  /\ cancelled' = [cancelled EXCEPT ![r] = TRUE]
  /\ UNCHANGED << credVars, probeVars, loginVars, scanVars, dbVars, routeVars,
                  sdVars, ai >>

(***************************************************************************)
(* RouterAIService over the services that drive a browser                  *)
(* (auth-service.ts, base-service.ts, reboot-service.ts,                   *)
(* devices-service.ts and the login service).  A session is the Stagehand  *)
(* object of a service: none, open (init resolved), failed (init           *)
(* rejected), closed.                                                      *)
(***************************************************************************)
AiCall(pc_, action, own, nested, success) ==
  [pc |-> pc_, action |-> action, own |-> own, nested |-> nested,
   success |-> success]

AiNotCalled == AiCall("idle", "none", "none", "none", FALSE)

AiIdle == ai = [c \in Runs |-> AiNotCalled]

AiActions == { "testConnection", "rebootRouter", "getConnectedDevices" }

\* BaseRouterService.initialize
initialize(session, ok) ==
  IF session \in { "open", "failed" }
    THEN session
    ELSE IF ok THEN "open" ELSE "failed"

\* BaseRouterService.cleanup
cleanup(session) ==
  IF session \in { "open", "failed" } THEN "closed" ELSE session

\* RouterAIService.<action>: new service, then its method is called
AiStart(c, action) ==
  /\ ai[c].pc = "idle"
  /\ ai' = [ai EXCEPT ![c] = AiCall("initialize", action, "none", "none", FALSE)]
  /\ UNCHANGED << credVars, probeVars, loginVars, scanVars, dbVars, routeVars,
                  sdVars, cancelled >>

\* await this.initialize() of the service; a rejection is caught by the
\* method, which returns success: false
AiInitialize(c, ok) ==
  /\ ai[c].pc = "initialize"
  /\ ai' = [ai EXCEPT ![c] =
              AiCall(IF ~ok THEN "cleanup"
                     ELSE IF ai[c].action = "testConnection" THEN "act"
                     ELSE "login",
                     ai[c].action, initialize(ai[c].own, ok), ai[c].nested, FALSE)]
  /\ UNCHANGED << credVars, probeVars, loginVars, scanVars, dbVars, routeVars,
                  sdVars, cancelled >>

\* new RouterLoginService().login(...) inside reboot and getDevices: the
\* login service initializes a session of its own; when login reports
\* failure the method returns that result
AiNestedLogin(c, initOk, loginOk) ==
  /\ ai[c].pc = "login"
  /\ ai' = [ai EXCEPT ![c] =
              AiCall(IF initOk /\ loginOk THEN "act" ELSE "cleanup",
                     ai[c].action, ai[c].own, initialize("none", initOk), FALSE)]
  /\ UNCHANGED << credVars, probeVars, loginVars, scanVars, dbVars, routeVars,
                  sdVars, cancelled >>

\* the navigation and the AI actions of the method; an error is caught by
\* the method (getDevices then still reports success, with an empty list)
AiAct(c, ok) ==
  /\ ai[c].pc = "act"
  /\ ai' = [ai EXCEPT ![c] =
              AiCall("cleanup", ai[c].action, ai[c].own, ai[c].nested,
                     ok \/ ai[c].action = "getConnectedDevices")]
  /\ UNCHANGED << credVars, probeVars, loginVars, scanVars, dbVars, routeVars,
                  sdVars, cancelled >>

\* finally { await service.cleanup() }, then the call returns
AiCleanup(c) ==
  /\ ai[c].pc = "cleanup"
  /\ ai' = [ai EXCEPT ![c] =
              AiCall("returned", ai[c].action, cleanup(ai[c].own), ai[c].nested,
                     ai[c].success)]
  /\ UNCHANGED << credVars, probeVars, loginVars, scanVars, dbVars, routeVars,
                  sdVars, cancelled >>

AppIdle == DbIdle /\ RouteIdle /\ SdIdle /\ CancelIdle /\ AiIdle

(***************************************************************************)
(* Specifications.                                                         *)
(***************************************************************************)
\* testCredentials on every outcome of its request
InitCred ==
  /\ tcOut \in CredOutcomes
  /\ tcResult = TcPending
  /\ ProbeIdle
  /\ AppIdle
  /\ LoginIdle
  /\ ScanIdle

NextCred == RunTestCredentials

SpecCred == InitCred /\ [][NextCred]_vars

\* one smartLogin run
InitLogin == CredIdle /\ ProbeIdle /\ LoginIdle /\ ScanIdle /\ AppIdle

NextLogin ==
  \/ StartSmartLogin(1)
  \/ \E out \in LandingOutcomes : FetchLanding(1, out)
  \/ \E g \in GeminiOutcomes : CallGemini(1, g)
  \/ \E out \in LoginCredOutcomes : TryCredential(1, out)

SpecLogin == InitLogin /\ [][NextLogin]_vars

\* one smartLogin run, every await of a device request a step of its own
StepCredOutcomes == LoginCredOutcomes \cup { BodyError(200, "ECONNRESET") }

NextLoginSteps ==
  \/ StartSmartLogin(1)
  \/ \E out \in { o \in LandingOutcomes : o.kind = "fetchError" } : FetchLanding(1, out)
  \/ \E status \in { 200, 401 } : LandingHeaders(1, status)
  \/ \E out \in LandingOutcomes : LandingText(1, out)
  \/ \E g \in GeminiOutcomes : CallGemini(1, g)
  \/ IssueProbe(1)
  \/ ProbeHeaders(1)
  \/ \E out \in StepCredOutcomes : ProbeReturns(1, out)

SpecLoginSteps == InitLogin /\ [][NextLoginSteps]_vars

\* several smartLogin runs, interleaved at their awaits
ConcLandingOutcomes == { Response(200, BodyPleaseLogin), FetchError("AbortError") }

ConcGeminiOutcomes ==
  { GeminiThrows("Gemini API error"),
    GeminiAnswers(TextNoJson),
    GeminiAnswers(TextWithCredentials(
      << Guess("root", "1234", "ISP firmware default"),
         Guess("admin", "", "Common blank password for this brand") >>)),
    GeminiAnswers(TextWithCredentials(
      << Guess("admin", "admin", "Default for most Linksys routers") >>)) }

ConcCredOutcomes == { Response(200, BodyAdminPanel), Response(401, BodyEmpty) }

NextLoginConc ==
  \E r \in Runs :
    \/ StartSmartLogin(r)
    \/ \E out \in ConcLandingOutcomes : FetchLanding(r, out)
    \/ \E g \in ConcGeminiOutcomes : CallGemini(r, g)
    \/ \E out \in ConcCredOutcomes : TryCredential(r, out)

SpecLoginConc == InitLogin /\ [][NextLoginConc]_vars

\* one discoverRouter call, of either form
InitDiscover ==
  /\ CredIdle
  /\ ProbeIdle
  /\ AppIdle
  /\ LoginIdle
  /\ \/ /\ scanImpl = "sequential"
        /\ scanOpts \in [retries : 1..MaxRetries, includeExtended : BOOLEAN]
        /\ scanPc = "common"
     \/ /\ scanImpl = "parallel"
        /\ scanOpts = DefaultOptions
        /\ scanPc = "parallel"
  /\ scanIdx = 1
  /\ scanProbed = <<>>
  /\ scanLog = <<>>
  /\ parOut = AllPending
  /\ parFirst = 0
  /\ scanResult = NotReturned

NextDiscover ==
  \/ ScanCommon
  \/ ScanExtended
  \/ \E i \in 1..Len(Par_Candidates), pr \in { "http", "https" } :
       \E out \in ParOutcomes[pr] : Par_Settle(i, pr, out)

SpecDiscover == InitDiscover /\ [][NextDiscover]_vars

\* one testIP call, of either form, on every combination of outcomes: the
\* first request per protocol from the wide sets, repeats from HeadOutcomes
InitProbe ==
  /\ CredIdle
  /\ AppIdle
  /\ LoginIdle
  /\ ScanIdle
  /\ tipResult = TipPending
  /\ \/ /\ tipImpl = "sequential"
        /\ tipRetries \in 1..MaxRetries
        /\ \E first \in [{ "http", "https" } -> TipHeadOutcomes] :
           \E rest \in [{ "http", "https" } -> [2..tipRetries -> HeadOutcomes]] :
             tipNet = [pr \in { "http", "https" } |->
                         [a \in 1..tipRetries |->
                            IF a = 1 THEN first[pr] ELSE rest[pr][a]]]
     \/ /\ tipImpl = "parallel"
        /\ tipRetries = 1
        /\ \E first \in [{ "http", "https" } -> TipGetOutcomes] :
             tipNet = [pr \in { "http", "https" } |-> [a \in 1..1 |-> first[pr]]]

NextProbe == SeqTestIP \/ ParTestIP

SpecProbe == InitProbe /\ [][NextProbe]_vars

\* calls of RouterModel.upsert, one after the other
InitUpsert ==
  /\ CredIdle
  /\ ProbeIdle
  /\ LoginIdle
  /\ ScanIdle
  /\ table \in InitialTables
  /\ upserts = [c \in Runs |-> UpsertIdle]
  /\ upDone = <<>>
  /\ RouteIdle
  /\ SdIdle
  /\ CancelIdle
  /\ AiIdle

NextUpsert ==
  \E c \in Runs :
    \/ \E data \in UpsertData : UpsertReadAlone(c, data)
    \/ UpsertWrite(c)

SpecUpsert == InitUpsert /\ [][NextUpsert]_vars

\* calls of RouterModel.upsert by concurrent requests: between the read and
\* the write of one call, other calls run
NextUpsertConc ==
  \E c \in Runs :
    \/ \E data \in UpsertData : UpsertRead(c, data)
    \/ UpsertWrite(c)

SpecUpsertConc == InitUpsert /\ [][NextUpsertConc]_vars

\* the router routes, one request after the other; a smart-connect request
\* is the smartLogin run it starts and the answer that follows its return
InitRoutes ==
  /\ CredIdle
  /\ ProbeIdle
  /\ LoginIdle
  /\ ScanIdle
  /\ table \in InitialTables
  /\ upserts = [c \in Runs |-> UpsertIdle]
  /\ upDone = <<>>
  /\ RouteIdle
  /\ SdIdle
  /\ CancelIdle
  /\ AiIdle

NextRoutes ==
  \/ StartSmartLogin(1)
  \/ \E out \in ConcLandingOutcomes : FetchLanding(1, out)
  \/ \E g \in ConcGeminiOutcomes : CallGemini(1, g)
  \/ \E out \in ConcCredOutcomes : TryCredential(1, out)
  \/ \E u \in Users, dbThrows \in BOOLEAN : SmartConnectReply(1, u, dbThrows)
  \/ \E u \in Users : SmartConnectNoAddress(u)
  \/ \E u \in Users, ip \in RouteAddrs, cred \in RouteCredentials,
        net \in RouteNets, dbThrows \in BOOLEAN :
          Connect(u, ip, cred, net, dbThrows)
  \/ \E u \in Users, ip \in RouteAddrs, out \in HeadOutcomes : TestRoute(u, ip, out)
  \/ \E u \in Users, dbThrows \in BOOLEAN : Reboot(u, dbThrows)

SpecRoutes == InitRoutes /\ [][NextRoutes]_vars

\* one smartDiscovery call
InitSmartDiscovery ==
  /\ CredIdle
  /\ ProbeIdle
  /\ LoginIdle
  /\ DbIdle
  /\ RouteIdle
  /\ CancelIdle
  /\ AiIdle
  /\ scanImpl = "sequential"
  /\ scanOpts = DefaultOptions
  /\ scanPc = "common"
  /\ scanIdx = 1
  /\ scanProbed = <<>>
  /\ scanLog = <<>>
  /\ parOut = AllPending
  /\ parFirst = 0
  /\ scanResult = NotReturned
  /\ sdPc = "first"
  /\ sdFirst = <<>>
  /\ sdResult = NotReturned

NextSmartDiscovery ==
  \/ ScanCommon
  \/ ScanExtended
  \/ SmartDiscoverySecondCall
  \/ SmartDiscoveryReturns

SpecSmartDiscovery == InitSmartDiscovery /\ [][NextSmartDiscovery]_vars

\* one smartLogin run whose caller may give it up at any moment
NextLoginCancel ==
  \/ NextLoginSteps
  \/ CallerCancels(1)

SpecLoginCancel == InitLogin /\ [][NextLoginCancel]_vars

\* calls of RouterAIService, interleaved at their awaits
InitAi ==
  /\ CredIdle
  /\ ProbeIdle
  /\ LoginIdle
  /\ ScanIdle
  /\ AppIdle

NextAi ==
  \E c \in Runs :
    \/ \E action \in AiActions : AiStart(c, action)
    \/ \E ok \in BOOLEAN : AiInitialize(c, ok)
    \/ \E initOk \in BOOLEAN, loginOk \in BOOLEAN : AiNestedLogin(c, initOk, loginOk)
    \/ \E ok \in BOOLEAN : AiAct(c, ok)
    \/ AiCleanup(c)

SpecAi == InitAi /\ [][NextAi]_vars

(***************************************************************************)
(* Properties of smartLogin and testCredentials.                           *)
(***************************************************************************)
\* the guesses probed by run r so far, in the order of the probes
Tried(r) == [i \in 1..Len(probes[r]) |-> probes[r][i].cred]

\* the guess list run r obtained from its own collaborator call
Obtained(r) ==
  IF gemini[r].text.match /\ gemini[r].text.valid
    THEN gemini[r].text.credentials
    ELSE FallbackCredentials

Pair(cred) == [username |-> cred.username, password |-> cred.password]

\* C3: the probes of a run follow the guess list position by position, and
\* a probe that succeeded is the last probe of its run: no guess after the
\* succeeding one is ever probed.
C3_InOrderStopAtFirstSuccess ==
  \A r \in Runs :
    /\ Len(probes[r]) <= Len(analysis[r].suggestedCredentials)
    /\ \A i \in 1..Len(probes[r]) :
         /\ probes[r][i].cred = analysis[r].suggestedCredentials[i]
         /\ probes[r][i].testResult.success => i = Len(probes[r])

C3_Witness ==
  /\ pc[1] = "done"
  /\ result[1].success
  /\ Len(probes[1]) = 2
  /\ Len(analysis[1].suggestedCredentials) = 3

\* C4: testCredentials reports success exactly for a 200 response whose
\* body holds admin, settings, configuration or wireless in any letter
\* case; of the sample bodies these are "Admin Panel", "SETTINGS",
\* "Router Configuration" and "WireLess".  Everything else is a failure.
C4_Accepted ==
  { Response(200, b) :
      b \in { BodyAdminPanel, BodySETTINGS, BodyRouterConfiguration, BodyWireLess } }

C4_SuccessIff200WithIndicator ==
  tcResult # TcPending => (tcResult.success <=> tcOut \in C4_Accepted)

C4_Witness ==
  /\ tcResult.success
  /\ tcOut = Response(200, BodySETTINGS)

\* C5: when the collaborator's answer does not parse into a credentials
\* list (no JSON object, invalid JSON, no credentials member), the run ends
\* having probed the fallback guesses, in their order, starting with
\* admin/admin.
C5_MalformedUsesFallback ==
  \A r \in Runs :
    (/\ pc[r] = "done"
     /\ gemini[r].called
     /\ ~gemini[r].threw
     /\ gemini[r].text \in MalformedTexts)
      => /\ Len(probes[r]) >= 1
         /\ Len(probes[r]) <= Len(FallbackCredentials)
         /\ \A i \in 1..Len(probes[r]) : probes[r][i].cred = FallbackCredentials[i]

\* C6: when the call of the collaborator itself errors after the landing
\* page was fetched, the run still probes the fallback guesses.
C6_CollaboratorErrorUsesFallback ==
  \A r \in Runs :
    (pc[r] = "done" /\ gemini[r].called /\ gemini[r].threw)
      => /\ Len(probes[r]) >= 1
         /\ probes[r][1].cred = FallbackCredentials[1]

\* C7: a run whose landing page request failed ends with a returned result
\* that has success = false and carries the error, and it has neither
\* called the collaborator nor issued a credential probe.
C7_LandingFailureIsReported ==
  \A r \in Runs :
    (landing[r] # NotRequested /\ landing[r].kind # "response")
      => /\ pc[r] = "done"
         /\ result[r] # NoResult
         /\ ~result[r].success
         /\ result[r].message = "AI analysis failed"
         /\ result[r].detail = landing[r].err
         /\ gemini[r] = NotCalled
         /\ probes[r] = <<>>

C7_Witness ==
  /\ pc[1] = "done"
  /\ landing[1] = FetchError("ECONNREFUSED")

\* C8: a run that obtained a guess list and in which no probe succeeded
\* has, when it ends, probed every position of the list once and in order,
\* and returned an unsuccessful result with the whole list and no working
\* credentials.
C8_ExhaustedTriesAll ==
  \A r \in Runs :
    (/\ pc[r] = "done"
     /\ analysis[r].success
     /\ \A i \in 1..Len(probes[r]) : ~probes[r][i].testResult.success)
      => /\ Tried(r) = Obtained(r)
         /\ result[r] # NoResult
         /\ ~result[r].success
         /\ result[r].hasData
         /\ result[r].suggestedCredentials = Obtained(r)
         /\ result[r].workingCredentials = NoCredentials

C8_Witness ==
  /\ pc[1] = "done"
  /\ ~result[1].success
  /\ Len(probes[1]) = 3
  /\ result[1].suggestedCredentials = Tried(1)

SeqReachable == { Response(200, <<>>) }

ParReachable ==
  [ http |-> { Response(200, BodyPleaseLogin) },
    https |-> { Response(500, BodyAdminPanel),
                FetchError("DEPTH_ZERO_SELF_SIGNED_CERT") } ]

ParReachableAt(j) ==
  \E pr \in { "http", "https" } : parOut[j][pr] \in ParReachable[pr]

\* the addresses of a sequential scan in the order it visits them
ScanOrder == Candidates \o ExtCandidates

\* C1: a router that discoverRouter returns is marked accessible and a
\* request of this very run to its address came back reachable; an address
\* whose requests all failed is never returned.
C1_ReturnedIsReachable ==
  (scanPc = "done" /\ scanResult.found)
    => /\ scanResult.isAccessible
       /\ scanImpl = "sequential" =>
            /\ scanProbed[Len(scanProbed)] =
                 Probed(scanResult.ipAddress, scanProbed[Len(scanProbed)].scope, TRUE)
            /\ \E k \in 1..Len(scanLog) : scanLog[k].out \in SeqReachable
       /\ scanImpl = "parallel" =>
            \E j \in 1..Len(Par_Candidates) :
              /\ Par_Candidates[j] = scanResult.ipAddress
              /\ ParReachableAt(j)

C1_Witness ==
  /\ scanImpl = "sequential"
  /\ scanPc = "done"
  /\ scanResult.found
  /\ Len(scanProbed) = 2
  /\ ~scanProbed[1].isAccessible
  /\ \E k \in 1..Len(scanLog) : scanLog[k].out.kind = "fetchError"

\* C2: the router returned is the reachable candidate with the lowest
\* index.  Parallel form: of all candidates with a reachable probe, in
\* whatever order the probes settled.  Sequential form: every candidate
\* before the returned one was probed, in list order, and found unreachable.
C2_LowestIndexWins ==
  scanPc = "done"
    => /\ scanImpl = "parallel" =>
            LET reachable == { j \in 1..Len(Par_Candidates) : ParReachableAt(j) }
            IN  IF reachable = {}
                  THEN scanResult = NotFound
                  ELSE /\ scanResult.found
                       /\ \E j \in reachable :
                            /\ \A k \in reachable : j <= k
                            /\ scanResult.ipAddress = Par_Candidates[j]
       /\ (scanImpl = "sequential" /\ scanResult.found) =>
            /\ \A k \in 1..Len(scanProbed) :
                 /\ scanProbed[k].ipAddress = ScanOrder[k]
                 /\ scanProbed[k].isAccessible <=> k = Len(scanProbed)
            /\ scanResult.ipAddress = ScanOrder[Len(scanProbed)]

C2_Witness ==
  /\ scanImpl = "parallel"
  /\ scanPc = "done"
  /\ ParReachableAt(1)
  /\ ParReachableAt(3)
  /\ parFirst = 3
  /\ scanResult.ipAddress = Par_Candidates[1]


(***************************************************************************)
(* Properties of testIP and testConnection.                                *)
(***************************************************************************)
TipLog == tipResult.log

\* the certificate anomalies of an HTTPS request
C11_CertAnomalies ==
  { FetchError("DEPTH_ZERO_SELF_SIGNED_CERT"), FetchError("CERT_HAS_EXPIRED") }

\* C11: a call of testIP / testConnection one of whose HTTPS requests failed
\* on a self-signed or an expired certificate reports the address as
\* accessible.
C11_CertAnomalyIsReachable ==
  (/\ tipResult.returned
   /\ \E k \in 1..Len(TipLog) :
        TipLog[k].protocol = "https" /\ TipLog[k].out \in C11_CertAnomalies)
    => testConnection(tipResult)

\* the transport errors that are not certificate anomalies
C12_OtherErrors ==
  { FetchError("ECONNREFUSED"), FetchError("EHOSTUNREACH"),
    FetchError("ECONNRESET"), FetchError("AbortError"), FetchError("timeout") }

C12_AllRequestsFailed ==
  /\ tipResult.returned
  /\ { TipLog[k].protocol : k \in 1..Len(TipLog) } = { "http", "https" }
  /\ \A k \in 1..Len(TipLog) : TipLog[k].out \in C12_OtherErrors

\* C12: when every request of a testIP call, on both protocols, ended in a
\* transport error other than a certificate anomaly (refused, unreachable,
\* reset, timeout), the call returns, and it returns isAccessible = false.
C12_OtherErrorsAreUnreachable ==
  C12_AllRequestsFailed => ~tipResult.isAccessible

\* a call of the parallel form whose HTTPS request was reset and whose HTTP
\* request timed out returned
C12_Witness ==
  /\ C12_AllRequestsFailed
  /\ tipImpl = "parallel"
  /\ \E k \in 1..Len(TipLog) :
       TipLog[k].protocol = "https" /\ TipLog[k].out = FetchError("ECONNRESET")
  /\ \E k \in 1..Len(TipLog) :
       TipLog[k].protocol = "http" /\ TipLog[k].out = FetchError("timeout")

\* a request whose outcome the rule of C14 counts as reachable
C14_Reachable(req) ==
  \/ req.out.kind = "response" /\ req.out.status < 500
  \/ req.protocol = "https" /\ req.out \in C11_CertAnomalies

\* C14: testConnection returns true exactly when one of the requests of the
\* probe, over http or https, got a status below 500 or failed on a
\* self-signed or expired certificate; a status of 500 or above on both
\* protocols gives false whatever the body holds.
C14_TrueIffReachable ==
  tipResult.returned =>
    (testConnection(tipResult) <=>
       \E k \in 1..Len(TipLog) : C14_Reachable(TipLog[k]))

\* the requests a call issued on one protocol
RequestsOn(protocol) ==
  { k \in 1..Len(TipLog) : TipLog[k].protocol = protocol }

C15_Final(out) ==
  \/ out.kind = "response" /\ out.status < 500
  \/ out \in { FetchError("ECONNREFUSED"), FetchError("EHOSTUNREACH") }

C13_ErrorReportedLoopGoesOn ==
  \A r \in Runs :
    \A i \in 1..Len(probes[r]) :
      probes[r][i].out.kind = "fetchError" =>
        /\ ~probes[r][i].testResult.success
        /\ probes[r][i].testResult.text = "Connection failed"
        /\ probes[r][i].testResult.err = probes[r][i].out.err
        /\ i < Len(Obtained(r)) =>
             \/ Len(probes[r]) > i /\ probes[r][i + 1].index = i + 1
             \/ Len(probes[r]) = i /\ pc[r] = "loop" /\ idx[r] = i + 1
        /\ (i = Len(Obtained(r)) /\ pc[r] = "done") =>
             /\ ~result[r].success
             /\ result[r].hasData

\* the first probe of a run timed out and the second guess was probed
C13_Witness ==
  /\ Len(probes[1]) >= 2
  /\ probes[1][1].out = FetchError("AbortError")
  /\ probes[1][2].index = 2


(***************************************************************************)
(* Properties of the scope of a discoverRouter call.                       *)
(***************************************************************************)
\* the addresses a call of the sequential form has to visit before it may
\* give up: the curated list, then the extended list if the sweep is on
C16_Scope ==
  SubSeq(COMMON_ROUTER_IPS, 1, MaxCandidates)
    \o (IF scanOpts.includeExtended
          THEN SubSeq(EXTENDED_IPS, 1, MaxExtended)
          ELSE <<>>)

\* the call is over and no address it probed was classified reachable
C16_NothingReachable ==
  /\ scanPc = "done"
  /\ scanImpl = "sequential" =>
       \A k \in 1..Len(scanProbed) : ~scanProbed[k].isAccessible
  /\ scanImpl = "parallel" =>
       \A j \in 1..MaxCandidates : ~ParReachableAt(j)

\* C16: when no candidate is reachable, discoverRouter returns null, and it
\* has then probed every candidate of its scope: the sequential form every
\* address of the curated list (and of the extended list when the sweep is
\* on), in order; the parallel form every candidate on both protocols.
C16_NullAfterProbingAll ==
  C16_NothingReachable =>
    /\ scanResult = NotFound
    /\ scanImpl = "sequential" =>
         [k \in 1..Len(scanProbed) |-> scanProbed[k].ipAddress] = C16_Scope
    /\ scanImpl = "parallel" =>
         \A j \in 1..MaxCandidates :
           \A pr \in { "http", "https" } : parOut[j][pr] # Pending

\* a sequential call with the sweep on found nothing and returned
C16_Witness ==
  /\ C16_NothingReachable
  /\ scanImpl = "sequential"
  /\ scanOpts.includeExtended
  /\ scanResult = NotFound

\* the addresses of the extended list
C17_ExtendedAddrs == { EXTENDED_IPS[i] : i \in 1..Len(EXTENDED_IPS) }

\* C17: the sequential discoverRouter probes an address of the extended
\* list only in a call with includeExtended set, and only after every
\* address of the curated list has been probed and found unreachable; a
\* call without includeExtended never probes one.
C17_ExtendedOnlyAfterCurated ==
  scanImpl = "sequential" =>
    \A k \in 1..Len(scanProbed) :
      scanProbed[k].ipAddress \in C17_ExtendedAddrs =>
        /\ scanOpts.includeExtended
        /\ k > MaxCandidates
        /\ \A j \in 1..MaxCandidates :
             /\ scanProbed[j].ipAddress = COMMON_ROUTER_IPS[j]
             /\ ~scanProbed[j].isAccessible

\* an address of the extended list was probed
C17_Witness ==
  /\ scanImpl = "sequential"
  /\ \E k \in 1..Len(scanProbed) : scanProbed[k].ipAddress \in C17_ExtendedAddrs


(***************************************************************************)
(* Properties of the awaits of smartLogin.                                 *)
(***************************************************************************)
\* C18: every request to the device that a run is waiting on (the landing
\* page request, a credential probe) has its abort timer armed, so that the
\* wait ends at the timeout even when the device stops answering after the
\* headers.
C18_EveryAwaitIsTimed ==
  \A r \in Runs :
    /\ pc[r] \in { "landing", "landingText" } =>
         [request |-> "landing", index |-> 0] \in timers[r]
    /\ \A p \in inFlight[r] :
         [request |-> "probe", index |-> p.index] \in timers[r]

\* C19: a run has at most one credential probe in flight, and the probe in
\* flight is the one of the guess after those whose probes have returned.
C19_OneProbeInFlight ==
  \A r \in Runs :
    /\ Cardinality(inFlight[r]) <= 1
    /\ \A p \in inFlight[r] : p.index = Len(probes[r]) + 1

\* the probe of the second guess is in flight, after the first has returned
C19_Witness ==
  /\ Len(probes[1]) = 1
  /\ \E p \in inFlight[1] : p.index = 2

(***************************************************************************)
(* Properties of the concurrent scan.                                      *)
(***************************************************************************)
\* C20: while the parallel discoverRouter runs, fewer probes are in flight
\* than the scan has in all: a limit that does not grow with the list of
\* candidates holds some probes back.
C20_InFlightBelowScanSize ==
  (scanImpl = "parallel" /\ scanPc = "parallel") =>
    Par_InFlight < 2 * MaxCandidates


(***************************************************************************)
(* Properties of RouterModel.upsert.                                       *)
(***************************************************************************)
\* the call of upsert that returned last
LastUpsert == upserts[upDone[Len(upDone)]]

SameStored(row, data) ==
  /\ row.ipAddress = data.ipAddress
  /\ row.username = data.username
  /\ row.password = data.password

\* C22: after a call of upsert, findByUserId of its user returns a row with
\* the address, username and password of the call, whether the user had a
\* row before or not; and a call that repeats the data of the call before
\* it leaves the table as that call left it.
C22_UpsertThenFind ==
  /\ Len(upDone) > 0 =>
       /\ LastUpsert.ok
       /\ SameStored(findByUserId(table, LastUpsert.data.userId), LastUpsert.data)
  /\ \A k \in 2..Len(upDone) :
       upserts[upDone[k]].data = upserts[upDone[k - 1]].data =>
         upserts[upDone[k]].after = upserts[upDone[k - 1]].after

\* a user who had a row with other data was upserted twice with the same data
C22_Witness ==
  /\ Len(upDone) >= 2
  /\ upserts[upDone[1]].existing
  /\ upserts[upDone[1]].data.userId = "u1"
  /\ upserts[upDone[1]].data.password = "1234"
  /\ upserts[upDone[2]].data = upserts[upDone[1]].data


\* the data a row of the table may come from: a call, or the table before
C29_Sources ==
  { upserts[c].data : c \in { d \in Runs : upserts[d].pc # "idle" } }
    \cup { Row("u1", "192.168.0.1", "admin", "password") }

\* C29: however concurrent calls of upsert for one user interleave, the user
\* has at most one row, the row holds the data of one of the calls, and no
\* call fails on the uniqueness of user_id.
C29_ConcurrentUpsertsAllSucceed ==
  /\ \A u \in Users : Cardinality(RowsOf(table, u)) <= 1
  /\ \A i \in 1..Len(table) : table[i] \in C29_Sources
  /\ \A c \in Runs : upserts[c].pc = "done" => upserts[c].ok


(***************************************************************************)
(* Properties of the router routes.                                        *)
(***************************************************************************)
\* C21: a response of a router route whose body says success = false is
\* sent with a status outside 200..299: 400 without an address, 404 without
\* a router on file, 500 otherwise, also when smartLogin or a router action
\* reports the failure.
C21_FailureIsNot2xx ==
  (reply # NoReply /\ ~reply.success) =>
    /\ reply.status \notin 200..299
    /\ reply.status \in { 400, 404, 500 }
    /\ (request.route \in { "connect", "test", "smart-connect" }
          /\ MissingAddress(request.ipAddress)) => reply.status = 400
    /\ (request.route = "reboot" /\ findByUserId(tableBefore, request.userId) = NoRow)
          => reply.status \in { 404, 500 }

\* C28: POST /connect changes the routers table only when its connection
\* test returned true; without an address, or with an address that cannot
\* be reached, it answers 400 and the table is as it was, and a row it
\* writes is the row of the request.
C28_ConnectWritesOnlyWhenReachable ==
  request.route = "connect" =>
    /\ (MissingAddress(request.ipAddress) \/ ~request.isConnected) =>
         /\ reply = Reply("connect", 400, FALSE)
         /\ table = tableBefore
    /\ table # tableBefore =>
         /\ request.tested /\ request.isConnected
         /\ reply = Reply("connect", 200, TRUE)
         /\ findByUserId(table, request.userId).ipAddress = request.ipAddress
         /\ \A u \in Users \ { request.userId } :
              findByUserId(table, u) = findByUserId(tableBefore, u)

\* an address was given, the test said unreachable, 400 was answered
C28_Witness ==
  /\ request.route = "connect"
  /\ request.tested
  /\ ~request.isConnected
  /\ reply.status = 400
  /\ tableBefore # <<>>


\* the guess whose probe made run r return with success
C23_Worked(r) == probes[r][Len(probes[r])].cred

\* C23: a successful result of smartLogin names the guess that worked,
\* username, password and rationale, and POST /smart-connect changes the
\* routers table only after such a result, the row of the user then holding
\* the username and the password of that guess.
C23_ResultNamesWorkingGuess ==
  /\ \A r \in Runs :
       result[r].success =>
         /\ Len(result[r].workingCredentials) = 1
         /\ Pair(C23_Worked(r)) = Pair(result[r].workingCredentials[1])
         /\ "reason" \in DOMAIN result[r].workingCredentials[1]
  /\ (request.route = "smart-connect" /\ table # tableBefore) =>
       \E r \in answered :
         /\ result[r].success
         /\ findByUserId(table, request.userId).username = C23_Worked(r).username
         /\ findByUserId(table, request.userId).password = C23_Worked(r).password


(***************************************************************************)
(* Properties of smartDiscovery, cancellation and the browser sessions.    *)
(***************************************************************************)
\* every probe of the smartDiscovery call so far, first call included
C24_Probes == sdFirst \o scanProbed

\* C24: within one discovery operation no candidate address is probed more
\* than once.
C24_NoAddressProbedTwice ==
  \A i \in 1..Len(C24_Probes), j \in 1..Len(C24_Probes) :
    i # j => C24_Probes[i].ipAddress # C24_Probes[j].ipAddress

\* C26: once the caller has cancelled a smartLogin run, no further probe of
\* the run gets in flight, and a probe that was aborted counts as failed.
C26_CancellationStopsProbes ==
  [][ \A r \in Runs :
        /\ cancelled[r] => inFlight'[r] \subseteq inFlight[r]
        /\ \A i \in 1..Len(probes'[r]) :
             (probes'[r][i].out.kind = "fetchError"
                /\ probes'[r][i].out.err = "AbortError")
               => ~probes'[r][i].testResult.success ]_vars

\* C30: when a call of RouterAIService has returned, no session initialized
\* during the call is open, the session of the login service created inside
\* reboot and getDevices included.
C30_SessionsClosedOnReturn ==
  \A c \in Runs :
    ai[c].pc = "returned" => (ai[c].own # "open" /\ ai[c].nested # "open")


\* the curated list of the form of discoverRouter that runs
C25_Curated ==
  IF scanImpl = "parallel" THEN Par_COMMON_ROUTER_IPS ELSE COMMON_ROUTER_IPS

\* address a was probed by the scan and a probe of it came back reachable
C25_Reachable(a) ==
  IF scanImpl = "parallel"
    THEN \E j \in 1..Len(Par_Candidates) :
           Par_Candidates[j] = a /\ ParReachableAt(j)
    ELSE \E k \in 1..Len(scanProbed) : scanProbed[k] = Probed(a, "common", TRUE)

\* C25: the curated list starts with 192.168.1.1, 192.168.0.1, 10.0.0.1, in
\* this order, and a scan that found 192.168.1.1 reachable returns it.
C25_FirstCuratedAddressWins ==
  /\ SubSeq(C25_Curated, 1, 3) = << "192.168.1.1", "192.168.0.1", "10.0.0.1" >>
  /\ (scanPc = "done" /\ C25_Reachable("192.168.1.1"))
       => scanResult.ipAddress = "192.168.1.1"

\* C27: what the collaborator answered is validated before it is used: a
\* run that got an answer with a credentials list probes at least one guess, every guess it probes
\* has a username and a password, and an answer whose credentials list is
\* empty makes the run probe the fallback guesses.
C27_AnswerValidatedBeforeUse ==
  \A r \in Runs :
    (/\ pc[r] = "done"
     /\ gemini[r].called
     /\ ~gemini[r].threw
     /\ gemini[r].text.match /\ gemini[r].text.valid /\ gemini[r].text.hasCreds) =>
      /\ Len(probes[r]) >= 1
      /\ \A i \in 1..Len(probes[r]) :
           { "username", "password" } \subseteq DOMAIN probes[r][i].cred
      /\ gemini[r].text.credentials = <<>> =>
           \A i \in 1..Len(probes[r]) : probes[r][i].cred = FallbackCredentials[i]

====
